---- MODULE Spec2Model ----
(***************************************************************************)
(* DocScraper (main.go): the crawl engine Scraper.Scrape, its URL resolver *)
(* and filter (resolveURL, shouldProcessURL), the page assembly of         *)
(* scrapePage and the output organizer (writeContentToFile, createIndex).  *)
(*                                                                         *)
(* Go strings are modelled as sequences of one-character strings, so that  *)
(* strings.HasPrefix, strings.TrimPrefix and strings.Contains are computed *)
(* character by character as the standard library does.  The remote site   *)
(* is the environment: each HTTP GET either fails or returns a document    *)
(* whose title and anchors are chosen from small sets.                     *)
(***************************************************************************)
EXTENDS Integers, Sequences, FiniteSets, TLC

(* ------------------------------ bounds --------------------------------- *)

\* most anchors (a[href]) a fetched document carries
MaxLinks == 2

\* most in-scope links the documents of the site return in one run, counted
\* with repetitions
MaxFound == 3

\* most failures (of a fetch or of a file write) the environment injects in one run
MaxFaults == 1

(* --------------------------- string helpers ---------------------------- *)

\* strings.HasPrefix
HasPrefix(s, p) ==
    /\ Len(p) <= Len(s)
    /\ SubSeq(s, 1, Len(p)) = p

\* strings.TrimPrefix
TrimPrefix(s, p) ==
    IF HasPrefix(s, p) THEN SubSeq(s, Len(p) + 1, Len(s)) ELSE s

\* strings.Contains
Contains(s, sub) ==
    \E i \in 1..(Len(s) - Len(sub) + 1) : SubSeq(s, i, i + Len(sub) - 1) = sub

\* position of the first occurrence of character c in s, 0 when absent
IndexOf(s, c) ==
    IF \E i \in 1..Len(s) : s[i] = c
    THEN CHOOSE i \in 1..Len(s) : s[i] = c /\ \A j \in 1..(i - 1) : s[j] # c
    ELSE 0

(* ------------------------------ net/url -------------------------------- *)

\* url.Parse on strings of letters, "/" and ":" (no query, fragment, userinfo
\* or escapes): getScheme splits at the first ":" when only letters precede it
\* and fails on a leading ":", an authority follows "//" and runs to the next
\* "/", the rest is the path.
ParseURL(s) ==
    LET colon  == IndexOf(s, ":")
        slash  == IndexOf(s, "/")
        hasSch == colon > 1 /\ (slash = 0 \/ colon < slash)
        scheme == IF hasSch THEN SubSeq(s, 1, colon - 1) ELSE <<>>
        rest   == IF hasSch THEN SubSeq(s, colon + 1, Len(s)) ELSE s
        hasAut == HasPrefix(rest, <<"/", "/">>)
        after  == IF hasAut THEN SubSeq(rest, 3, Len(rest)) ELSE rest
        cut    == IndexOf(after, "/")
        host   == IF ~hasAut THEN <<>>
                  ELSE IF cut = 0 THEN after
                  ELSE SubSeq(after, 1, cut - 1)
        path   == IF ~hasAut THEN (IF hasSch /\ ~HasPrefix(rest, <<"/">>) THEN <<>> ELSE rest)
                  ELSE IF cut = 0 THEN <<>>
                  ELSE SubSeq(after, cut, Len(after))
    IN  [err    |-> colon = 1,
         Scheme |-> scheme,
         Host   |-> host,
         Path   |-> path,
         Opaque |-> IF hasSch /\ ~hasAut /\ ~HasPrefix(rest, <<"/">>) THEN rest ELSE <<>>]

\* URL.String for the same class of URLs
URLString(u) ==
    IF u.Opaque # <<>> THEN u.Scheme \o <<":">> \o u.Opaque
    ELSE (IF u.Scheme # <<>> THEN u.Scheme \o <<":">> ELSE <<>>)
         \o (IF u.Scheme # <<>> \/ u.Host # <<>>
             THEN (IF u.Host # <<>> \/ u.Path # <<>> THEN <<"/", "/">> ELSE <<>>) \o u.Host
             ELSE <<>>)
         \o u.Path

sanitizeURL(rawURL) ==
    LET u == ParseURL(rawURL) IN IF u.err THEN rawURL ELSE URLString(u)

extractDomainPrefix(rawURL) ==
    LET u == ParseURL(rawURL)
    IN  IF u.err THEN rawURL ELSE u.Scheme \o <<":", "/", "/">> \o u.Host

(* ------------------------------ test data ------------------------------ *)

http == <<"h", "t", "t", "p">>

\* seeds given on the command line: a seed with a path, with the path "/",
\* and with an empty path, all on host h
SeedDocs == http \o <<":", "/", "/", "h", "/", "d">>
SeedRoot == http \o <<":", "/", "/", "h", "/">>
SeedBare == http \o <<":", "/", "/", "h">>
Seeds == {SeedDocs, SeedRoot, SeedBare}

\* href attributes the site's documents may carry
HrefRel    == <<"a">>
HrefSelf   == <<"/", "d">>
HrefDeep   == <<"/", "e", "/", "b">>
HrefBlog   == <<"/", "b", "l", "o", "g", "/", "p">>
HrefOther  == http \o <<":", "/", "/", "x", "/", "e">>
HrefProto  == <<"/", "/", "x", "/", "e">>
Hrefs == {HrefRel, HrefSelf, HrefDeep, HrefBlog, HrefOther, HrefProto}


\* the -o argument, "o.md"
OutputPathArg == <<"o", ".", "m", "d">>

\* sequences over S of length at most n
RECURSIVE SeqsUpTo(_, _)
SeqsUpTo(S, n) ==
    IF n = 0 THEN {<<>>}
    ELSE LET shorter == SeqsUpTo(S, n - 1)
         IN  shorter \cup {Append(q, x) : q \in {r \in shorter : Len(r) = n - 1}, x \in S}

(* ------------------------------ constants ------------------------------ *)

SingleFile == 0
ByChapters == 1
ByPages    == 2

\* ignorePaths of shouldProcessURL
ignorePaths ==
    << <<"/", "a", "s", "s", "e", "t", "s", "/">>,
       <<"/", "s", "t", "a", "t", "i", "c", "/">>,
       <<"/", "i", "m", "g", "/">>,
       <<"/", "i", "m", "a", "g", "e", "s", "/">>,
       <<"/", "j", "s", "/">>,
       <<"/", "c", "s", "s", "/">>,
       <<"/", "f", "o", "n", "t", "s", "/">>,
       <<"/", "e", "x", "a", "m", "p", "l", "e", "s", "/">>,
       <<"/", "b", "l", "o", "g", "/">>,
       <<"/", "c", "o", "m", "m", "u", "n", "i", "t", "y", "/">>,
       <<"/", "d", "o", "w", "n", "l", "o", "a", "d", "/">> >>

\* invalid of sanitizeFilename
invalid == {"/", "\\", "?", "%", "*", ":", "|", "\"", "<", ">", ".", " "}

\* the length sanitizeFilename truncates to
MaxNameLen == 100

(* ------------------------------ variables ------------------------------ *)

VARIABLES
    baseURL,        \* Scraper.baseURL
    domainPrefix,   \* Scraper.domainPrefix
    outputPath,     \* Scraper.outputPath
    outputDir,      \* Scraper.outputDir
    organization,   \* Scraper.organization
    singlePage,     \* Scraper.singlePage
    noDelay,        \* the argument of Scrape
    visitedURLs,    \* Scraper.visitedURLs, the keys mapped to true
    pages,          \* Scraper.pages
    links,          \* Scrape's local queue
    processed,      \* Scrape's local map, the keys mapped to true
    mainContent,    \* Scrape's local strings.Builder
    currentURL,     \* Scrape's local currentURL
    page,           \* Scrape's local page
    files,          \* the file system under the output path: path -> content
    result,         \* what Scrape returned: "none" while running, "nil", "error"
    pc,             \* position in Scrape
    siteTitled,     \* environment: whether the documents of the site have an h1
    faults,         \* environment: the failures injected so far
    enqLog,         \* history: every URL ever placed in links, in order
    trace           \* history: the HTTP fetches and delays, in order

vars == <<baseURL, domainPrefix, outputPath, outputDir, organization, singlePage,
          noDelay, visitedURLs, pages, links, processed, mainContent, currentURL,
          page, files, result, pc, siteTitled, faults, enqLog, trace>>

config == <<baseURL, domainPrefix, outputPath, outputDir, organization, singlePage,
            noDelay, visitedURLs, siteTitled>>

(* --------------------------- pure functions ---------------------------- *)

\* strings.ToLower on the letters the titles use
ToLowerChar(c) ==
    CASE c = "T" -> "t"
      [] c = "A" -> "a"
      [] OTHER   -> c

\* sanitizeFilename
sanitizeFilename(name) ==
    LET replaced == [i \in 1..Len(name) |->
                        IF ToLowerChar(name[i]) \in invalid THEN "_" ELSE ToLowerChar(name[i])]
        nonEmpty == IF Len(replaced) = 0
                    THEN <<"u", "n", "n", "a", "m", "e", "d">>
                    ELSE replaced
    IN  IF Len(nonEmpty) > MaxNameLen THEN SubSeq(nonEmpty, 1, MaxNameLen) ELSE nonEmpty

\* position of the last occurrence of character c in s, 0 when absent
LastIndexOf(s, c) ==
    IF \E i \in 1..Len(s) : s[i] = c
    THEN CHOOSE i \in 1..Len(s) : s[i] = c /\ \A j \in (i + 1)..Len(s) : s[j] # c
    ELSE 0

\* strings.Trim(s, "/")
RECURSIVE TrimSlashes(_)
TrimSlashes(s) ==
    IF s = <<>> THEN s
    ELSE IF Head(s) = "/" THEN TrimSlashes(Tail(s))
    ELSE IF s[Len(s)] = "/" THEN TrimSlashes(SubSeq(s, 1, Len(s) - 1))
    ELSE s

\* s without its trailing separators
RECURSIVE StripTrailing(_)
StripTrailing(s) ==
    IF s # <<>> /\ s[Len(s)] = "/" THEN StripTrailing(SubSeq(s, 1, Len(s) - 1)) ELSE s

\* filepath.Base
Base(p) ==
    IF p = <<>> THEN <<".">>
    ELSE LET q == StripTrailing(p)
             e == SubSeq(q, LastIndexOf(q, "/") + 1, Len(q))
         IN  IF e = <<>> THEN <<"/">> ELSE e

\* filepath.Ext: the suffix from the last "." of the final path element
Ext(p) ==
    LET dot == LastIndexOf(p, ".")
    IN  IF dot > 0 /\ dot > LastIndexOf(p, "/") THEN SubSeq(p, dot, Len(p)) ELSE <<>>

\* strings.TrimSuffix
TrimSuffix(s, suf) ==
    IF Len(suf) <= Len(s) /\ SubSeq(s, Len(s) - Len(suf) + 1, Len(s)) = suf
    THEN SubSeq(s, 1, Len(s) - Len(suf))
    ELSE s

\* filepath.Join of a directory and a file name without separators
Join(dir, name) == dir \o <<"/">> \o name

\* len(strings.Split(s, "/")): one more than the number of separators
SplitCount(s) == Cardinality({i \in 1..Len(s) : s[i] = "/"}) + 1

\* Scraper.resolveURL, s holding the fields of the receiver
resolveURL(s, href) ==
    IF HasPrefix(href, http) THEN href
    ELSE IF HasPrefix(href, <<"/", "/">>)
         THEN LET u == ParseURL(s.baseURL)
              IN  IF u.err THEN <<>> ELSE u.Scheme \o <<":">> \o href
    ELSE IF HasPrefix(href, <<"/">>) THEN s.domainPrefix \o href
    ELSE s.baseURL \o <<"/">> \o href

\* shouldProcessURL without the comparison of hosts
shouldProcessURLAnyHost(s, urlStr) ==
    LET base     == ParseURL(s.baseURL)
        checkURL == ParseURL(urlStr)
        relPath  == TrimPrefix(checkURL.Path, base.Path)
    IN  /\ ~base.err
        /\ ~checkURL.err
        /\ urlStr \notin s.visitedURLs
        /\ \A k \in 1..Len(ignorePaths) : ~Contains(relPath, ignorePaths[k])

\* Scraper.shouldProcessURL, s holding the fields of the receiver
shouldProcessURL(s, urlStr) ==
    LET base     == ParseURL(s.baseURL)
        checkURL == ParseURL(urlStr)
        relPath  == TrimPrefix(checkURL.Path, base.Path)
    IN  /\ ~base.err
        /\ ~checkURL.err
        /\ checkURL.Host = base.Host
        /\ urlStr \notin s.visitedURLs
        /\ \A k \in 1..Len(ignorePaths) : ~Contains(relPath, ignorePaths[k])

\* the body of the Each callback of getAllDocLinks: what one anchor adds to links
DocLink(s, href) ==
    LET fullURL == resolveURL(s, href)
    IN  IF fullURL # <<>> /\ shouldProcessURL(s, fullURL) THEN <<fullURL>> ELSE <<>>

\* the fields NewScraper sets that resolveURL and shouldProcessURL read
NewScraper(rawURL) ==
    [baseURL      |-> sanitizeURL(rawURL),
     domainPrefix |-> extractDomainPrefix(rawURL),
     visitedURLs  |-> {}]

\* the same fields of the running Scraper
Scraper ==
    [baseURL |-> baseURL, domainPrefix |-> domainPrefix, visitedURLs |-> visitedURLs]

\* DocLink tabulated for the Scrapers NewScraper makes of the seeds: no code
\* assigns the three fields after NewScraper
DocLinks ==
    [s \in {NewScraper(rawURL) : rawURL \in Seeds} |-> [h \in Hrefs |-> DocLink(s, h)]]

\* the concatenation of the sequences q[1], ..., q[Len(q)]
RECURSIVE Flatten(_)
Flatten(q) == IF q = <<>> THEN <<>> ELSE Head(q) \o Flatten(Tail(q))

\* the links getAllDocLinks returns for a document carrying the anchors hrefs,
\* given what each anchor adds
getAllDocLinks(hrefs, each) == Flatten([i \in 1..Len(hrefs) |-> each[hrefs[i]]])

\* the Page scrapePage returns for a document at url whose first h1 is title
\* (empty when there is none) and which carries no other block
scrapePage(url, title) ==
    LET urlPath  == TrimSlashes(TrimPrefix(url, baseURL))
        level    == SplitCount(urlPath)
        byTitle  == sanitizeFilename(title)
        filename == IF byTitle = <<>> THEN sanitizeFilename(Base(url)) ELSE byTitle
    IN  [Title    |-> title,
         Content  |-> <<[fmt |-> "\n## Source: %s\n\n", arg |-> url]>>
                      \o (IF title # <<>> THEN <<[fmt |-> "# %s\n\n", arg |-> title]>> ELSE <<>>)
                      \o <<[fmt |-> "---\n\n", arg |-> <<>>]>>,
         URL      |-> url,
         Filename |-> filename \o <<".", "m", "d">>,
         Level    |-> level]

\* text of the first h1 of the document at url: the documents of a titled site
\* are headed "T" followed by the last character of their URL, those of an
\* untitled site have no h1
TitleAt(url, titled) ==
    IF titled THEN <<"T", url[Len(url)]>> ELSE <<>>

\* the zero Page
NoPage == [Title |-> <<>>, Content |-> <<>>, URL |-> <<>>, Filename |-> <<>>, Level |-> 0]

\* the file system after os.WriteFile(path, content)
WriteFile(fs, path, content) ==
    [p \in DOMAIN fs \cup {path} |-> IF p = path THEN content ELSE fs[p]]

\* the title line of the combined document and of the index
DocTitle ==
    TrimPrefix(TrimPrefix(baseURL, http \o <<"s", ":", "/", "/">>), http \o <<":", "/", "/">>)

\* the content createIndex writes
RECURSIVE IndexLines(_)
IndexLines(ps) ==
    IF ps = <<>> THEN <<>>
    ELSE <<[fmt |-> "%s- [%s](%s) - [source](%s)\n",
            arg |-> <<Head(ps).Level - 1, Head(ps).Title, Head(ps).Filename, Head(ps).URL>>]>>
         \o IndexLines(Tail(ps))

IndexContent ==
    <<[fmt |-> "# Documentation: %s\n\n", arg |-> DocTitle],
      [fmt |-> "## Table of Contents\n\n", arg |-> <<>>]>> \o IndexLines(pages)

IndexPath == Join(outputDir, <<"i", "n", "d", "e", "x", ".", "m", "d">>)

(* ------------------------------- actions ------------------------------- *)

\* NewScraper, called by main with the parsed flags
Init ==
    /\ \E rawURL \in Seeds :
          /\ baseURL = NewScraper(rawURL).baseURL
          /\ domainPrefix = NewScraper(rawURL).domainPrefix
          /\ visitedURLs = NewScraper(rawURL).visitedURLs
    /\ outputPath = OutputPathArg
    /\ outputDir = TrimSuffix(OutputPathArg, Ext(OutputPathArg))
    /\ organization \in {SingleFile, ByChapters, ByPages}
    /\ singlePage \in BOOLEAN
    /\ noDelay \in BOOLEAN
    /\ pages = <<>>
    /\ links = <<>>
    /\ processed = {}
    /\ mainContent = <<>>
    /\ currentURL = <<>>
    /\ page = NoPage
    /\ files = <<>>
    /\ result = "none"
    /\ pc = "start"
    /\ siteTitled \in BOOLEAN
    /\ faults = 0
    /\ enqLog = <<>>
    /\ trace = <<>>

\* an entry of trace: an HTTP GET of scrapePage ("scrape") or of getAllDocLinks
\* ("links", with the links it returned), a call of writeContentToFile
\* ("write", url is the path) or a pause of humanizedDelay ("delay")
Event(kind, url, ok, got) == [ev |-> kind, url |-> url, ok |-> ok, got |-> got]

\* the outcomes of a file write the environment may still choose
WriteOutcomes == {TRUE} \cup {FALSE : k \in (faults + 1)..MaxFaults}

\* Scrape in single-page mode, scrapePage(baseURL) fails
SinglePageFail ==
    /\ pc = "start"
    /\ singlePage
    /\ faults < MaxFaults
    /\ faults' = faults + 1
    /\ trace' = Append(trace, Event("scrape", baseURL, FALSE, <<>>))
    /\ result' = "error"
    /\ pc' = "done"
    /\ UNCHANGED <<config, pages, links, processed, mainContent, currentURL, page,
                   files, enqLog>>

\* SinglePageWrite writing the page under the title line of the combined document
SinglePageWriteTitled ==
    /\ pc = "start"
    /\ singlePage
    /\ \E written \in WriteOutcomes :
          LET p    == scrapePage(baseURL, TitleAt(baseURL, siteTitled))
              path == IF organization = SingleFile THEN outputPath
                      ELSE Join(outputDir, p.Filename)
              body == <<[fmt |-> "# Documentation: %s\n\n", arg |-> baseURL]>> \o p.Content
          IN  /\ page' = p
              /\ files' = IF written THEN WriteFile(files, path, body) ELSE files
              /\ faults' = IF written THEN faults ELSE faults + 1
              /\ result' = IF written THEN "nil" ELSE "error"
              /\ trace' = trace \o <<Event("scrape", baseURL, TRUE, <<>>),
                                     Event("write", path, written, <<>>)>>
    /\ pc' = "done"
    /\ UNCHANGED <<config, pages, links, processed, mainContent, currentURL, enqLog>>

\* Scrape in single-page mode, scrapePage(baseURL) succeeds and the page is
\* written to the output path or into the output directory
SinglePageWrite ==
    /\ pc = "start"
    /\ singlePage
    /\ \E written \in WriteOutcomes :
          LET p    == scrapePage(baseURL, TitleAt(baseURL, siteTitled))
              path == IF organization = SingleFile THEN outputPath
                      ELSE Join(outputDir, p.Filename)
          IN  /\ page' = p
              /\ files' = IF written THEN WriteFile(files, path, p.Content) ELSE files
              /\ faults' = IF written THEN faults ELSE faults + 1
              /\ result' = IF written THEN "nil" ELSE "error"
              /\ trace' = trace \o <<Event("scrape", baseURL, TRUE, <<>>),
                                     Event("write", path, written, <<>>)>>
    /\ pc' = "done"
    /\ UNCHANGED <<config, pages, links, processed, mainContent, currentURL, enqLog>>

\* Scrape in crawl mode: the queue starts with the seed
StartCrawl ==
    /\ pc = "start"
    /\ ~singlePage
    /\ links' = <<baseURL>>
    /\ enqLog' = <<baseURL>>
    /\ processed' = {}
    /\ mainContent' = <<>>
    /\ pc' = "loop"
    /\ UNCHANGED <<faults, config, pages, currentURL, page, files, result, trace>>

\* a continue that returns an error from Scrape
ContinueReturns == pc' = "done" /\ result' = "error"

\* the continue statements of the loop: on to the next iteration
Continue == pc' = "loop" /\ result' = result

\* the test of processed[currentURL] without the map
SkipAlwaysFalse(u) == FALSE

\* the test of processed[currentURL] at the head of the loop
Skip(u) == u \in processed

\* an iteration that takes links[0] and finds it processed
SkipProcessed ==
    /\ pc = "loop"
    /\ Len(links) > 0
    /\ Skip(Head(links))
    /\ currentURL' = Head(links)
    /\ links' = Tail(links)
    /\ Continue
    /\ UNCHANGED <<faults, config, pages, processed, mainContent, page, files, enqLog,
                   trace>>

\* ScrapeFail marking the failed URL processed
ScrapeFailMarks ==
    /\ pc = "loop"
    /\ Len(links) > 0
    /\ ~Skip(Head(links))
    /\ faults < MaxFaults
    /\ faults' = faults + 1
    /\ currentURL' = Head(links)
    /\ links' = Tail(links)
    /\ processed' = processed \cup {Head(links)}
    /\ trace' = Append(trace, Event("scrape", Head(links), FALSE, <<>>))
    /\ Continue
    /\ UNCHANGED <<config, pages, mainContent, page, files, enqLog>>

\* an iteration whose scrapePage(currentURL) fails: logged, next iteration
ScrapeFail ==
    /\ pc = "loop"
    /\ Len(links) > 0
    /\ ~Skip(Head(links))
    /\ faults < MaxFaults
    /\ faults' = faults + 1
    /\ currentURL' = Head(links)
    /\ links' = Tail(links)
    /\ trace' = Append(trace, Event("scrape", Head(links), FALSE, <<>>))
    /\ Continue
    /\ UNCHANGED <<config, pages, processed, mainContent, page, files, enqLog>>

\* Organize dropping the Page whose file could not be written
OrganizeDropsFailed(p, written) ==
    /\ currentURL' = p.URL
    /\ page' = p
    /\ mainContent' = IF organization = SingleFile THEN mainContent \o p.Content
                      ELSE mainContent
    /\ files' = IF organization # SingleFile /\ written
                THEN WriteFile(files, Join(outputDir, p.Filename), p.Content)
                ELSE files
    /\ pages' = IF organization = SingleFile \/ written THEN Append(pages, p) ELSE pages
    /\ processed' = processed \cup {p.URL}

\* the switch on organization for the Page p, then p is recorded and its URL
\* marked processed; written is the outcome of the write of the page file
Organize(p, written) ==
    /\ currentURL' = p.URL
    /\ page' = p
    /\ mainContent' = IF organization = SingleFile THEN mainContent \o p.Content
                      ELSE mainContent
    /\ files' = IF organization # SingleFile /\ written
                THEN WriteFile(files, Join(outputDir, p.Filename), p.Content)
                ELSE files
    /\ pages' = Append(pages, p)
    /\ processed' = processed \cup {p.URL}

\* the fetch of scrapePage and the write of the switch, as entries of trace
Organized(p, written) ==
    <<Event("scrape", p.URL, TRUE, <<>>)>>
    \o (IF organization # SingleFile
        THEN <<Event("write", Join(outputDir, p.Filename), written, <<>>)>>
        ELSE <<>>)

\* the outcomes of the write of a page file: none is made in a single file
PageWriteOutcomes == IF organization = SingleFile THEN {TRUE} ELSE WriteOutcomes

\* an iteration whose page is recorded and whose getAllDocLinks(currentURL)
\* fails: logged, next iteration
DiscoverFail ==
    /\ pc = "loop"
    /\ Len(links) > 0
    /\ ~Skip(Head(links))
    /\ LET p == scrapePage(Head(links), TitleAt(Head(links), siteTitled))
       IN  \E written \in PageWriteOutcomes :
              LET n == IF written THEN faults ELSE faults + 1
              IN  /\ n < MaxFaults
                  /\ faults' = n + 1
                  /\ Organize(p, written)
                  /\ trace' = trace \o Organized(p, written)
                                    \o <<Event("links", p.URL, FALSE, <<>>)>>
    /\ links' = Tail(links)
    /\ Continue
    /\ UNCHANGED <<config, enqLog>>

\* the number of links getAllDocLinks has returned so far
RECURSIVE FoundIn(_)
FoundIn(t) == IF t = <<>> THEN 0 ELSE Len(Head(t).got) + FoundIn(Tail(t))

\* NewLinks without the test of processed[link]
NewLinksAll(newLinks, done) == newLinks

\* the new links an iteration appends to the queue, done being the processed URLs
NewLinks(newLinks, done) == SelectSeq(newLinks, LAMBDA link : link \notin done)

\* Enqueue placing the new links at the front of the queue
EnqueueFront(queue, added) == added \o queue

\* links = append(links, link) for each new link
Enqueue(queue, added) == queue \o added

\* the pause of humanizedDelay(noDelay), as entries of trace
Delay == IF noDelay THEN <<>> ELSE <<Event("delay", <<>>, TRUE, <<>>)>>

\* a complete iteration: the page is recorded, getAllDocLinks(currentURL)
\* succeeds on a document carrying some anchors hrefs, the unprocessed links
\* go to the back, then the delay
DiscoverOK ==
    /\ pc = "loop"
    /\ Len(links) > 0
    /\ ~Skip(Head(links))
    /\ LET each == DocLinks[Scraper]
           p    == scrapePage(Head(links), TitleAt(Head(links), siteTitled))
           room == MaxFound - FoundIn(trace)
           docs == {getAllDocLinks(hrefs, each) : hrefs \in SeqsUpTo(Hrefs, MaxLinks)}
       IN  \E written \in PageWriteOutcomes, newLinks \in {l \in docs : Len(l) <= room} :
              LET added == NewLinks(newLinks, processed \cup {p.URL})
              IN  /\ faults' = IF written THEN faults ELSE faults + 1
                  /\ Organize(p, written)
                  /\ links' = Enqueue(Tail(links), added)
                  /\ enqLog' = enqLog \o added
                  /\ trace' = trace \o Organized(p, written)
                                    \o <<Event("links", p.URL, TRUE, newLinks)>>
                                    \o Delay
    /\ UNCHANGED <<config, result, pc>>

\* Finish without the test of len(links)
FinishEarly ==
    /\ pc = "loop"
    /\ \E written \in WriteOutcomes :
          LET path    == IF organization = SingleFile THEN outputPath ELSE IndexPath
              content == IF organization = SingleFile
                         THEN <<[fmt |-> "# Documentation: %s\n\n", arg |-> DocTitle]>>
                              \o mainContent
                         ELSE IndexContent
          IN  /\ files' = IF written THEN WriteFile(files, path, content) ELSE files
              /\ faults' = IF written THEN faults ELSE faults + 1
              /\ result' = IF written THEN "nil" ELSE "error"
              /\ trace' = Append(trace, Event("write", path, written, <<>>))
    /\ pc' = "done"
    /\ UNCHANGED <<config, pages, links, processed, mainContent, currentURL, page,
                   enqLog>>

\* the loop ends on an empty queue; the combined document or the index is
\* written and Scrape returns
Finish ==
    /\ pc = "loop"
    /\ Len(links) = 0
    /\ \E written \in WriteOutcomes :
          LET path    == IF organization = SingleFile THEN outputPath ELSE IndexPath
              content == IF organization = SingleFile
                         THEN <<[fmt |-> "# Documentation: %s\n\n", arg |-> DocTitle]>>
                              \o mainContent
                         ELSE IndexContent
          IN  /\ files' = IF written THEN WriteFile(files, path, content) ELSE files
              /\ faults' = IF written THEN faults ELSE faults + 1
              /\ result' = IF written THEN "nil" ELSE "error"
              /\ trace' = Append(trace, Event("write", path, written, <<>>))
    /\ pc' = "done"
    /\ UNCHANGED <<config, pages, links, processed, mainContent, currentURL, page,
                   enqLog>>

Next ==
    \/ SinglePageFail
    \/ SinglePageWrite
    \/ StartCrawl
    \/ SkipProcessed
    \/ ScrapeFail
    \/ DiscoverFail
    \/ DiscoverOK
    \/ Finish

Spec == Init /\ [][Next]_vars

\* the steps the program takes when nothing fails
Progress ==
    \/ SinglePageWrite
    \/ StartCrawl
    \/ SkipProcessed
    \/ DiscoverOK
    \/ Finish

\* the process runs until Scrape returns: every fetch returns within the
\* client's timeout and every other step is straight-line code, so the
\* program does not stay for ever where it can take a step; the failures are
\* the environment's and need not happen
FairSpec == Spec /\ WF_vars(Progress)

(* ------------------------------ properties ----------------------------- *)

Range(q) == {q[i] : i \in 1..Len(q)}

\* the URLs scrapePage returned a Page for
Scraped == {trace[i].url : i \in {k \in 1..Len(trace) : trace[k].ev = "scrape" /\ trace[k].ok}}

\* the URL's path contains one of the ignored infixes
Denylisted(u) == \E k \in 1..Len(ignorePaths) : Contains(ParseURL(u).Path, ignorePaths[k])

\* the links of the site as far as the crawl has discovered them
Edges ==
    UNION {{<<trace[i].url, v>> : v \in Range(trace[i].got)} :
              i \in {k \in 1..Len(trace) : trace[k].ev = "links" /\ trace[k].ok}}

\* the URLs at most k links of E away from the seed
RECURSIVE Within(_, _)
Within(E, k) ==
    IF k = 0 THEN {baseURL}
    ELSE LET near == Within(E, k - 1)
         IN  near \cup {e[2] : e \in {d \in E : d[1] \in near}}

\* the link distance from the seed of every URL that was enqueued
Dist ==
    LET near == [k \in 0..Len(enqLog) |-> Within(Edges, k)]
    IN  [u \in Range(enqLog) |->
            CHOOSE k \in 0..Len(enqLog) : u \in near[k] /\ (k = 0 \/ u \notin near[k - 1])]

AllFetchesOK == \A i \in 1..Len(trace) : trace[i].ev \in {"scrape", "links"} => trace[i].ok

FinalArtifactPath == IF organization = SingleFile THEN outputPath ELSE IndexPath

\* C1: in a crawl no URL is scraped successfully twice and no two recorded
\* Pages have the same URL
NoURLProcessedTwice ==
    /\ \A i, j \in 1..Len(pages) : i # j => pages[i].URL # pages[j].URL
    /\ \A i, j \in 1..Len(trace) :
          (i # j /\ trace[i].ev = "scrape" /\ trace[i].ok
                 /\ trace[j].ev = "scrape" /\ trace[j].ok) => trace[i].url # trace[j].url

\* a crawl has ended in which a URL was enqueued and dequeued twice
WitnessC1 ==
    /\ pc = "done"
    /\ ~singlePage
    /\ Len(pages) >= 2
    /\ \E i, j \in 1..Len(enqLog) : i # j /\ enqLog[i] = enqLog[j]

VisitedEqualsDequeued ==
    (~singlePage /\ pc = "done")
        => Cardinality(processed) = Cardinality(Range(enqLog))

\* C3 as amended: when the loop has ended the processed set has as many URLs
\* as were dequeued and scraped successfully; it holds exactly those
ProcessedEqualsScraped ==
    (~singlePage /\ pc = "done")
        => /\ Cardinality(processed) = Cardinality(Scraped \cap Range(enqLog))
           /\ processed = Scraped

\* a crawl has ended in which one scrapePage failed and another succeeded
WitnessC3 ==
    /\ ~singlePage
    /\ pc = "done"
    /\ processed # {}
    /\ \E i \in 1..Len(trace) : trace[i].ev = "scrape" /\ ~trace[i].ok

\* C4: a URL whose scrapePage failed is not fetched again in the same run
NoRetry ==
    \A i, j \in 1..Len(trace) :
        (i < j /\ trace[i].ev = "scrape" /\ ~trace[i].ok /\ trace[j].ev \in {"scrape", "links"})
            => trace[j].url # trace[i].url

\* C5: a URL whose path contains an ignored infix is never enqueued, never
\* fetched and never recorded as a Page
DenylistedNeverEnqueued ==
    /\ \A u \in Range(enqLog) : ~Denylisted(u)
    /\ \A i \in 1..Len(trace) : trace[i].ev \in {"scrape", "links"} => ~Denylisted(trace[i].url)
    /\ \A i \in 1..Len(pages) : ~Denylisted(pages[i].URL)

\* C6: every URL in the queue and every URL of a recorded Page has the host of
\* the base URL
SameHost ==
    \A u \in Range(links) \cup {pages[i].URL : i \in 1..Len(pages)} :
        ParseURL(u).Host = ParseURL(baseURL).Host

\* links were discovered and queued during a crawl that recorded two Pages
WitnessC6 ==
    /\ Len(pages) >= 2
    /\ Len(links) >= 1

\* C7: shouldProcessURL returns false for every URL already processed
InScopeRejectsProcessed ==
    \A u \in processed : ~shouldProcessURL(Scraper, u)

\* C8: when every fetch of a crawl succeeded, the Pages are recorded in
\* non-decreasing order of link distance from the seed
BreadthFirst ==
    (~singlePage /\ pc = "done" /\ AllFetchesOK)
        => LET dist == Dist
           IN  \A i, j \in 1..Len(pages) :
                  i < j => dist[pages[i].URL] <= dist[pages[j].URL]

\* a crawl without failed fetch has recorded two Pages one link from the seed
\* and one Page two links from it
WitnessC8 ==
    /\ ~singlePage
    /\ pc = "done"
    /\ AllFetchesOK
    /\ LET dist == Dist
       IN  \E i, j, k \in 1..Len(pages) :
              /\ i # j
              /\ dist[pages[i].URL] = 1
              /\ dist[pages[j].URL] = 1
              /\ dist[pages[k].URL] = 2

SinglePageOnly ==
    singlePage =>
        /\ links = <<>>
        /\ enqLog = <<>>
        /\ Cardinality({i \in 1..Len(trace) : trace[i].ev = "scrape"}) <= 1
        /\ \A i \in 1..Len(trace) :
              \/ trace[i].ev = "scrape" /\ trace[i].url = baseURL
              \/ trace[i].ev = "write"
        /\ IndexPath \notin DOMAIN files
        /\ organization = SingleFile =>
              /\ DOMAIN files \subseteq {outputPath}
              /\ result = "nil" =>
                    /\ DOMAIN files = {outputPath}
                    /\ Head(files[outputPath]) = [fmt |-> "\n## Source: %s\n\n", arg |-> baseURL]

\* Scrape has returned nil in single-page mode with organization single
WitnessC10 ==
    /\ singlePage
    /\ pc = "done"
    /\ organization = SingleFile
    /\ result = "nil"

\* the entries of trace that are writes, failed ones included
Writes == {i \in 1..Len(trace) : trace[i].ev = "write"}

\* the path of the file the switch on organization writes for Page p
PagePath(p) == Join(outputDir, p.Filename)

\* C11: in chapters or pages mode a crawl whose writes all succeeded leaves
\* one file per recorded Page and index.md; every page file is written before
\* the next fetch, and the index has one entry per Page, in the order of pages
PageFilesAndIndex ==
    (~singlePage /\ pc = "done" /\ organization # SingleFile
                 /\ \A i \in Writes : trace[i].ok)
        => /\ Cardinality(DOMAIN files) = Len(pages) + 1
           /\ IndexPath \in DOMAIN files
           /\ \A k \in 1..Len(pages) :
                 /\ PagePath(pages[k]) \in DOMAIN files
                 /\ files[PagePath(pages[k])] = pages[k].Content
           /\ \A i \in 1..Len(trace) :
                 (trace[i].ev = "scrape" /\ trace[i].ok)
                     => /\ i < Len(trace)
                        /\ trace[i + 1].ev = "write"
           /\ files[IndexPath] = IndexContent
           /\ Len(files[IndexPath]) = 2 + Len(pages)

\* a step in which scrapePage failed for the URL taken from the queue
FailedScrapeStep ==
    /\ ~singlePage
    /\ Len(trace') = Len(trace) + 1
    /\ trace'[Len(trace')].ev = "scrape"
    /\ ~trace'[Len(trace')].ok

\* scrapePage has failed during the crawl
ScrapeHasFailed ==
    /\ ~singlePage
    /\ \E i \in 1..Len(trace) : trace[i].ev = "scrape" /\ ~trace[i].ok

\* C12: in the crawl loop a failed scrapePage only removes the head of the
\* queue: Scrape does not return, no Page is recorded, nothing is written or
\* appended, nothing is enqueued; every iteration takes the head of the queue
\* and fetches it unless it is processed, and the queue is drained
FetchFailureRecoverable ==
    /\ [][FailedScrapeStep =>
            /\ pc' = "loop"
            /\ result' = "none"
            /\ links' = Tail(links)
            /\ currentURL' = Head(links)
            /\ trace'[Len(trace')].url = Head(links)
            /\ UNCHANGED <<pages, processed, mainContent, files, enqLog>>]_vars
    /\ [][(pc = "loop" /\ pc' = "loop") =>
            /\ currentURL' = Head(links)
            /\ SubSeq(links', 1, Len(links) - 1) = Tail(links)
            /\ Head(links) \notin processed =>
                  /\ Len(trace') > Len(trace)
                  /\ trace'[Len(trace) + 1].ev = "scrape"
                  /\ trace'[Len(trace) + 1].url = Head(links)]_vars
    /\ ScrapeHasFailed ~> (pc = "done" /\ links = <<>>)

\* a crawl has ended in which a scrapePage failed and a later one succeeded
WitnessC12 ==
    /\ ~singlePage
    /\ pc = "done"
    /\ \E i, j \in 1..Len(trace) :
          /\ i < j
          /\ trace[i].ev = "scrape" /\ ~trace[i].ok
          /\ trace[j].ev = "scrape" /\ trace[j].ok

\* the failed writes of a page file: they follow the successful fetch of the page
FailedPageWrites ==
    {i \in Writes : /\ ~trace[i].ok
                    /\ i > 1
                    /\ trace[i - 1].ev = "scrape"
                    /\ trace[i - 1].ok}

\* C13: with organization single a failed write makes Scrape return the
\* error; in a crawl in chapters or pages mode a failed write of a page file
\* leaves the Page recorded and processed, its links are fetched next, the
\* queue is drained, and the index is built with an entry for the Page and
\* written, Scrape returning the outcome of that write alone
WriteFailureBySeverity ==
    /\ (organization = SingleFile /\ \E i \in Writes : ~trace[i].ok)
          => /\ pc = "done"
             /\ result = "error"
             /\ files = <<>>
    /\ (~singlePage /\ organization # SingleFile)
          => \A i \in FailedPageWrites :
                /\ trace[i - 1].url \in processed
                /\ \E k \in 1..Len(pages) :
                      /\ pages[k].URL = trace[i - 1].url
                      /\ trace[i].url = PagePath(pages[k])
                      /\ IndexContent[2 + k].arg[4] = trace[i - 1].url
                /\ i < Len(trace)
                /\ trace[i + 1].ev = "links"
                /\ trace[i + 1].url = trace[i - 1].url
                /\ pc = "done" =>
                      /\ links = <<>>
                      /\ trace[Len(trace)].ev = "write"
                      /\ trace[Len(trace)].url = IndexPath
                      /\ trace[Len(trace)].ok =>
                            /\ result = "nil"
                            /\ files[IndexPath] = IndexContent

\* a crawl in chapters or pages mode has ended with nil after the write of a
\* page file failed, with two Pages recorded
WitnessC13 ==
    /\ ~singlePage
    /\ organization # SingleFile
    /\ pc = "done"
    /\ result = "nil"
    /\ Len(pages) >= 2
    /\ FailedPageWrites # {}

\* the entries of trace that are HTTP fetches
Fetches == {i \in 1..Len(trace) : trace[i].ev \in {"scrape", "links"}}

\* C14: in a crawl with the delay enabled one delay lies between any two
\* consecutive fetches, those of the same URL and those after a failed fetch
\* included
DelayBetweenFetches ==
    (~singlePage /\ ~noDelay)
        => \A i, j \in Fetches :
              (i < j /\ \A k \in Fetches : ~(i < k /\ k < j))
                  => Cardinality({k \in (i + 1)..(j - 1) : trace[k].ev = "delay"}) = 1

\* the Pages scrapePage has returned: those of the crawl and, in single-page
\* mode, the one of the seed
Returned == Range(pages) \cup (IF page = NoPage THEN {} ELSE {page})

\* C15: the filename of a Page is its sanitized title plus ".md", and for a
\* Page without title the sanitized last segment of its URL plus ".md", the
\* placeholder standing in only for an empty segment; Pages without title
\* whose last segments differ have different filenames
FilenameFromTitleOrURL ==
    /\ \A p \in Returned :
          p.Filename = sanitizeFilename(IF p.Title = <<>> THEN Base(p.URL) ELSE p.Title)
                       \o <<".", "m", "d">>
    /\ \A p, q \in Returned :
          (p.Title = <<>> /\ q.Title = <<>> /\ Base(p.URL) # Base(q.URL))
              => p.Filename # q.Filename

\* the number of non-empty pieces of s between separators
NonEmptySegments(s) ==
    Cardinality({i \in 1..Len(s) : s[i] # "/" /\ (i = 1 \/ s[i - 1] = "/")})

\* C16: the level of every Page is the number of non-empty segments of its
\* URL once the seed URL is stripped from its front and the separators at
\* both ends are trimmed, and at least 1: it is 1 for the seed, and level - 1
\* is never negative
LevelIsDepth ==
    \A p \in Returned :
        LET rest  == TrimSlashes(TrimPrefix(p.URL, baseURL))
            depth == NonEmptySegments(rest)
        IN  /\ p.Level = (IF depth < 1 THEN 1 ELSE depth)
            /\ p.Level - 1 >= 0
            /\ p.URL = baseURL => p.Level = 1

====
